---- MODULE Spec2Model ----
(***************************************************************************)
(* Model of src/ou_xml_to_rst/__main__.py: the OU-XML to RST converter.    *)
(* Python strings are TLA+ strings; a Python list of lines is a sequence   *)
(* of strings.  An lxml element is a record                                *)
(*   [tag, text, tail, attrib, children]                                   *)
(* where text and tail are optional strings (<<>> is None, <<s>> is s),    *)
(* attrib is a function from attribute names to strings, and children is   *)
(* the sequence of child elements in document order.                       *)
(***************************************************************************)
EXTENDS Integers, Sequences, FiniteSets, TLC

VARIABLES
    doc,            \* doc.xpath('Unit/Session'): the sequence of Session elements
    pc,             \* position of the run inside run_import/process_session/process_section
    idx,            \* run_import: enumerate index of the current Session (1-based)
    i,              \* process_session: cursor of "for node in session"
    buffer,         \* process_session: its local buffer
    section_idx,    \* process_session: enumerate index of the current Section (1-based)
    j,              \* process_section: cursor of "for node in section"
    sbuffer,        \* process_section: its local buffer
    index_buffer,   \* run_import: its local buffer (the unit's index.rst)
    DEFER_OUTPUT,   \* the module-level global of that name
    files,          \* the destination tree: path -> sequence of lines written
    stdout,         \* what print() wrote to standard output, one record per call
    DEFAULT_BLOCK,  \* the module-level global of that name
    DEFAULT_PART,   \* the module-level global of that name
    node,           \* argument of a direct process_node call
    parent,         \* node.getparent().tag for that call
    indent,         \* argument of a direct process_node call
    ret             \* outcome of that call (NotCalled before it)

vars == <<doc, pc, idx, i, buffer, section_idx, j, sbuffer, index_buffer,
          DEFER_OUTPUT, files, stdout, DEFAULT_BLOCK, DEFAULT_PART,
          node, parent, indent, ret>>

---------------------------------------------------------------------------
(* Bounds of the explored inputs *)
MaxTextLen == 3     \* longest text of an inline node
MaxPathLen == 4     \* longest generated media path
MaxMathLen == 4     \* longest generated stylesheet output
MaxRows == 3        \* most rows of a table
MaxCells == 2       \* most cells of a table row
MaxSegments == 3    \* most comma-separated segments of a targetdoc
MaxBlock == 5       \* largest --block option
MaxPart == 2        \* largest --part option
MaxChildren == 3    \* most children of a Session

---------------------------------------------------------------------------
(* Python str and list primitives *)

\* the backquote character; a TLA+ string cannot hold one, so the model
\* writes an apostrophe wherever the source writes a backquote
BQ == "'"

None == <<>>
Some(s) == <<s>>

\* Python truthiness of an optional string: neither None nor ''
Truthy(o) == o # None /\ o[1] # ""

Char(s, k) == SubSeq(s, k, k)

\* s[k:] with a 0-based, non-negative k
From(s, k) == SubSeq(s, k + 1, Len(s))

StartsWith(s, p) == Len(s) >= Len(p) /\ SubSeq(s, 1, Len(p)) = p

EndsWith(s, p) == Len(s) >= Len(p) /\ SubSeq(s, Len(s) - Len(p) + 1, Len(s)) = p

\* str.rfind(c) for a one-character c: 0-based index of the last match, -1 when absent
RFind(s, c) ==
    LET hits == {k \in 1..Len(s) : Char(s, k) = c}
    IN  IF hits = {} THEN -1 ELSE (CHOOSE k \in hits : \A m \in hits : m <= k) - 1

Contains(s, c) == \E k \in 1..Len(s) : Char(s, k) = c

IsSpace(c) == c \in {" ", "\n", "\t", "\r"}

RECURSIVE LStrip(_)
LStrip(s) == IF s # "" /\ IsSpace(Char(s, 1)) THEN LStrip(Tail(s)) ELSE s

RECURSIVE RStrip(_)
RStrip(s) ==
    IF s # "" /\ IsSpace(Char(s, Len(s))) THEN RStrip(SubSeq(s, 1, Len(s) - 1)) ELSE s

\* str.strip()
Strip(s) == RStrip(LStrip(s))

UpperCase == "ABCDEFGHIJKLMNOPQRSTUVWXYZ"
LowerCase == "abcdefghijklmnopqrstuvwxyz"

LowerChar(c) ==
    IF \E k \in 1..26 : Char(UpperCase, k) = c
    THEN Char(LowerCase, CHOOSE k \in 1..26 : Char(UpperCase, k) = c)
    ELSE c

RECURSIVE Lower(_)
\* str.lower()
Lower(s) == IF s = "" THEN "" ELSE LowerChar(Char(s, 1)) \o Lower(Tail(s))

RECURSIVE Replace(_, _, _)
\* str.replace(old, new): left to right, non-overlapping, old non-empty
Replace(s, old, new) ==
    IF s = "" THEN ""
    ELSE IF StartsWith(s, old) THEN new \o Replace(From(s, Len(old)), old, new)
    ELSE Char(s, 1) \o Replace(Tail(s), old, new)

RECURSIVE Split(_, _)
\* str.split(sep) for a one-character sep: always at least one part
Split(s, sep) ==
    IF ~Contains(s, sep) THEN <<s>>
    ELSE LET k == CHOOSE m \in 1..Len(s) :
                     Char(s, m) = sep /\ \A n \in 1..(m - 1) : Char(s, n) # sep
         IN  <<SubSeq(s, 1, k - 1)>> \o Split(From(s, k), sep)

RECURSIVE Join(_, _)
\* sep.join(parts)
Join(sep, parts) ==
    IF parts = <<>> THEN ""
    ELSE IF Len(parts) = 1 THEN parts[1]
    ELSE parts[1] \o sep \o Join(sep, Tail(parts))

RECURSIVE Repeat(_, _)
\* s * n
Repeat(s, n) == IF n <= 0 THEN "" ELSE s \o Repeat(s, n - 1)

Digits == "0123456789"

RECURSIVE IntToStr(_)
\* the decimal text an f-string gives a non-negative int
IntToStr(n) ==
    IF n < 10 THEN Char(Digits, n + 1) ELSE IntToStr(n \div 10) \o Char(Digits, (n % 10) + 1)

\* buffer[-1] of a non-empty list
Last(s) == s[Len(s)]


RECURSIVE Flatten(_)
\* concatenation of a sequence of sequences
Flatten(ss) == IF ss = <<>> THEN <<>> ELSE ss[1] \o Flatten(Tail(ss))

---------------------------------------------------------------------------
(* lxml elements and the xpath queries the converter uses *)

E(tag, text, tail, attrib, children) ==
    [tag |-> tag, text |-> text, tail |-> tail, attrib |-> attrib, children |-> children]

NoAttrib == <<>>

HasAttr(n, a) == a \in DOMAIN n.attrib

\* node.xpath('T'): the child elements with tag T, in document order
XPath(n, t) == SelectSeq(n.children, LAMBDA c : c.tag = t)

\* node.xpath('T/@a'): the a attributes of the child elements with tag T
XPathAttr(n, t, a) ==
    LET with == SelectSeq(n.children, LAMBDA c : c.tag = t /\ a \in DOMAIN c.attrib)
    IN  [k \in 1..Len(with) |-> with[k].attrib[a]]

\* the text nodes directly under one element: its text, then the tails of its children
TextNodes(n) ==
    LET tailed == SelectSeq(n.children, LAMBDA c : c.tail # None)
    IN  (IF n.text # None THEN <<n.text[1]>> ELSE <<>>) \o [k \in 1..Len(tailed) |-> tailed[k].tail[1]]

\* node.xpath('T/text()')
XPathText(n, t) ==
    LET ts == XPath(n, t)
    IN  Flatten([k \in 1..Len(ts) |-> TextNodes(ts[k])])

\* node.xpath('A/B')
XPath2(n, a, b) ==
    LET as == XPath(n, a)
    IN  Flatten([k \in 1..Len(as) |-> XPath(as[k], b)])

\* node.xpath('A/B/C')
XPath3(n, a, b, c) ==
    LET bs == XPath2(n, a, b)
    IN  Flatten([k \in 1..Len(bs) |-> XPath(bs[k], c)])

---------------------------------------------------------------------------
(* fix_trailing_space: returns the node with text and tail as the function *)
(* leaves them                                                             *)

fix_trailing_space(n) ==
    IF Truthy(n.text) /\ EndsWith(n.text[1], " ")
    THEN [n EXCEPT !.text = Some(SubSeq(n.text[1], 1, Len(n.text[1]) - 1)),
                   !.tail = IF Truthy(n.tail) THEN Some(" " \o n.tail[1]) ELSE Some(" ")]
    ELSE n

---------------------------------------------------------------------------
(* Outcome of a process_node call: the returned list (lines), what it      *)
(* appended to DEFER_OUTPUT (defer), what it printed (diag), and the       *)
(* exception it raised (exc, "" when it returned)                          *)

Out(lines, defer, diag, exc) == [lines |-> lines, defer |-> defer, diag |-> diag, exc |-> exc]

Ok(lines) == Out(lines, <<>>, <<>>, "")

\* r1 then r2 in program order; an exception in r1 ends the sequence
Then(r1, r2) ==
    IF r1.exc # "" THEN r1
    ELSE Out(r1.lines \o r2.lines, r1.defer \o r2.defer, r1.diag \o r2.diag, r2.exc)

\* the statement after r raises exc: the side effects of r stay, its value is lost
Raise(r, exc) == IF r.exc # "" THEN r ELSE Out(<<>>, r.defer, r.diag, exc)

\* replace the value computed so far, keeping the side effects
Returning(r, lines) == IF r.exc # "" THEN r ELSE [r EXCEPT !.lines = lines]

\* the optional tail every inline rule appends
TailOf(n) == IF Truthy(n.tail) THEN <<n.tail[1]>> ELSE <<>>

Indented(ind) == ind \o "    "

---------------------------------------------------------------------------
(* process_node, one operator per branch of its if/elif chain *)

RECURSIVE process_node(_, _, _)
RECURSIVE ForEach(_, _, _)

\* "for child in nodes: buffer.extend(process_node(child, indent=ind))"
ForEach(nodes, par, ind) ==
    IF nodes = <<>> THEN Ok(<<>>)
    ELSE Then(process_node(nodes[1], par, ind), ForEach(Tail(nodes), par, ind))

\* "if buffer[-1] != '': buffer.append('')" on a buffer that may be empty
EnsureBlank(r) ==
    IF r.exc # "" THEN r
    ELSE IF r.lines = <<>> THEN Raise(r, "IndexError")
    ELSE IF Last(r.lines) # "" THEN Returning(r, Append(r.lines, ""))
    ELSE r

\* the part of a media path after the last backslash
Basename(src) == From(src, RFind(src, "\\") + 1)

HeadingParents == {"Session", "Section", "InternalSection", "SubSection", "Quote"}

HeadingChar(par) ==
    IF par \in {"Session", "Section"} THEN "#"
    ELSE IF par = "InternalSection" THEN "="
    ELSE IF par = "SubSection" THEN "-"
    ELSE ""

Title(n, par, ind) ==
    LET kids == ForEach(n.children, n.tag, "")
    IN  IF kids.exc # "" THEN kids
        ELSE IF n.text = None THEN Raise(kids, "TypeError")
        ELSE LET title_text == Strip(Join("", <<n.text[1]>> \o kids.lines))
                 shown == Then(kids, Out(<<>>, <<>>,
                                         IF par \in HeadingParents THEN <<>> ELSE <<par>>, ""))
             IN  Returning(shown, <<title_text, Repeat(HeadingChar(par), Len(title_text)), "">>)

Paragraph(n, par, ind) ==
    LET own == IF Truthy(n.text)
               THEN (IF n.tag = "Timing" THEN <<"*", n.text[1], "*">> ELSE <<n.text[1]>>)
               ELSE <<>>
        r == Then(Ok(<<ind>> \o own), ForEach(n.children, n.tag, ""))
    IN  Returning(r, <<Join("", r.lines), "">>)

Box(n, par, ind) ==
    LET heading_text == XPathText(n, "Heading")
        head == IF heading_text # <<>>
                THEN <<ind \o ".. admonition:: " \o heading_text[1], "">>
                ELSE <<>>
        body == SelectSeq(n.children, LAMBDA c : c.tag # "Heading")
    IN  EnsureBlank(Then(Ok(head), ForEach(body, n.tag, Indented(ind))))

\* StudyNote, Description, Transcript, Answer: a directive line and the indented children
Directive(n, name, ind) ==
    Then(Ok(<<ind \o ".. " \o name \o "::", "">>), ForEach(n.children, n.tag, Indented(ind)))

Image(n, par, ind) ==
    IF HasAttr(n, "src")
    THEN Ok(<<".. image:: " \o Basename(n.attrib["src"]), "">>)
    ELSE Ok(<<>>)

Figure(n, par, ind) ==
    LET filename == XPathAttr(n, "Image", "src")
        caption == XPath(n, "Caption")
        head == <<ind \o ".. figure:: " \o Basename(filename[1]), "">>
    IN  IF filename = <<>> THEN Ok(<<>>)
        ELSE IF caption = <<>> THEN Ok(head)
        ELSE LET own == IF Truthy(caption[1].text) THEN <<caption[1].text[1]>> ELSE <<>>
                 kids == ForEach(caption[1].children, "Caption", "")
             IN  \* tmp.append(process_node(child)) puts a list into tmp: join raises
                 IF caption[1].children # <<>> THEN Raise(kids, "TypeError")
                 ELSE Ok(head \o <<Join("", <<Indented(ind)>> \o own), "">>)

MediaContent(n, par, ind) ==
    IF ~HasAttr(n, "src") THEN Ok(<<>>)
    ELSE IF StartsWith(n.attrib["src"], "youtube:")
    THEN LET description == XPath(n, "Description")
             transcript == XPath(n, "Transcript")
         IN  Then(Then(Ok(<<ind \o ".. youtube:: " \o From(n.attrib["src"], 8), "">>),
                       IF description # <<>>
                       THEN process_node(description[1], n.tag, Indented(ind))
                       ELSE Ok(<<>>)),
                  IF transcript # <<>>
                  THEN process_node(transcript[1], n.tag, Indented(ind))
                  ELSE Ok(<<>>))
    ELSE LET caption == XPath(n, "Caption")
             head == <<ind \o ".. iframe:: " \o Basename(n.attrib["src"])>>
                     \o (IF HasAttr(n, "width")
                         THEN <<ind \o "    :width: " \o n.attrib["width"]>> ELSE <<>>)
                     \o (IF HasAttr(n, "height")
                         THEN <<ind \o "    :height: " \o n.attrib["height"]>> ELSE <<>>)
                     \o <<"">>
         IN  EnsureBlank(Then(Ok(head),
                              IF caption # <<>>
                              THEN ForEach(caption[1].children, "Caption", ind)
                              ELSE Ok(<<>>)))

Activity(n, par, ind) ==
    LET heading_text == XPathText(n, "Heading")
        body == SelectSeq(n.children, LAMBDA c : c.tag # "Heading")
    IN  IF heading_text = <<>> THEN Ok(<<>>)
        ELSE Then(Ok(<<ind \o ".. activity:: " \o heading_text[1], "">>),
                  ForEach(body, n.tag, Indented(ind)))

\* Question, InternalSection, SubSection (same indent); Quote, Reading (one level deeper)
Container(n, ind) == ForEach(n.children, n.tag, ind)

SourceReference(n, par, ind) ==
    LET r == Then(Ok(<<ind \o "-- ">> \o (IF Truthy(n.text) THEN <<n.text[1]>> ELSE <<>>)),
                  ForEach(n.children, n.tag, ""))
    IN  Returning(r, <<Join("", r.lines), "">>)

Reference(n, par, ind) ==
    IF ~Truthy(n.text) THEN Ok(<<>>)
    ELSE LET r == Then(Ok(<<".. [" \o Strip(n.text[1]) \o "] " \o n.text[1]>>),
                       ForEach(n.children, n.tag, ""))
         IN  Returning(r, <<Join("", r.lines), "">>)

ListTags == {"BulletedList", "BulletedSubsidiaryList", "UnNumberedList",
             "UnNumberedSubsidiaryList", "NumberedList"}

List(n, par, ind) == EnsureBlank(ForEach(n.children, n.tag, ind))

\* the marker a ListItem or SubListItem gets under a parent of kind par
item_tag(par) == IF par \in {"NumberedList"} THEN "#. " ELSE "* "

ListItem(n, par, ind) ==
    IF Truthy(n.text)
    THEN LET r == Then(Ok(<<ind \o item_tag(par) \o n.text[1]>>), ForEach(n.children, n.tag, ""))
         IN  Returning(r, <<Join("", r.lines)>>)
    ELSE IF n.children = <<>> THEN Ok(<<>>)
    ELSE Then(process_node(n.children[1], n.tag, ind \o item_tag(par)),
              ForEach(Tail(n.children), n.tag, ind \o Repeat(" ", Len(item_tag(par)))))

\* the block form shared by ComputerCode, ComputerDisplay and ComputerUI
IsCodeBlock(n) == Truthy(n.text) /\ Strip(n.text[1]) # "" /\ Contains(n.text[1], "\n")

SourceCode(n, ind) ==
    LET code == Split(n.text[1], "\n")
    IN  Ok(<<Join("\n", <<ind \o ".. sourcecode::", "">>
                        \o [k \in 1..Len(code) |-> ind \o "    " \o code[k]])>>)

\* sup and the inline form of ComputerCode, once the trailing space is moved:
\* the text that is left between the delimiters open and close, then the tail
Wrapped(n, open, close) ==
    Ok((IF Truthy(n.text) THEN <<open \o n.text[1] \o close>> ELSE <<>>) \o TailOf(n))

\* i, b, GlossaryTerm and the inline form of ComputerDisplay/ComputerUI: the
\* text is tested before the trailing space is moved, and wrapped whatever is left
Inline(n, open, close) ==
    IF Truthy(n.text)
    THEN LET m == fix_trailing_space(n)
         IN  Ok(<<open \o m.text[1] \o close>> \o TailOf(m))
    ELSE Ok(TailOf(n))

ComputerCode(n, par, ind) ==
    IF IsCodeBlock(n) THEN SourceCode(n, ind)
    ELSE Wrapped(fix_trailing_space(n), BQ \o BQ, BQ \o BQ)

ComputerDisplay(n, par, ind) ==
    IF IsCodeBlock(n) THEN SourceCode(n, ind)
    ELSE IF XPath(n, "Paragraph") # <<>> THEN Directive(n, "sourcecode", ind)
    ELSE Inline(n, BQ \o BQ, BQ \o BQ)

\* MATH_XSLT: the MathML to LaTeX stylesheet.  The stylesheet is not part of the
\* converter; the MathML element of the model carries, as its mmltex attribute,
\* the text the stylesheet produces for it ("" when it produces nothing).
MATH_XSLT(m) == IF HasAttr(m, "mmltex") THEN m.attrib["mmltex"] ELSE ""

\* a rewriting that would escape the backslashes before it looks for the delimiters
LatexEscapingFirst(math) ==
    Replace(Replace(Replace(Replace(math, "\n", ""), "\\", "\\\\"), "\\[", "$$"), "\\]", "$$")

\* the rewriting of the stylesheet's output
Latex(math) == Replace(Replace(Replace(Replace(math, "\n", ""), "\\[", "$$"), "\\]", "$$"),
                       "\\", "\\\\")

Equation(n, par, ind) ==
    LET mathml == XPath(n, "MathML")
    IN  IF mathml = <<>> THEN Raise(Ok(<<>>), "IndexError")
        ELSE IF MATH_XSLT(mathml[1]) # ""
        THEN Ok(<<ind \o Latex(MATH_XSLT(mathml[1])), "">>)
        ELSE Ok(<<>>)

\* a count of the header cells instead of the rows that have one
HeaderCells(n) == Len(XPath3(n, "tbody", "tr", "th"))

\* len(node.xpath("tbody/tr[th]"))
HeaderRows(n) == Len(SelectSeq(XPath2(n, "tbody", "tr"), LAMBDA row : XPath(row, "th") # <<>>))

\* f'{x}' of an optional string
Format(o) == IF o = None THEN "None" ELSE o[1]

\* one cell of a table row: the k-th of its row
Cell(cell, k, ind) ==
    LET r == Then(Ok(<<IF k = 1 THEN ind \o "    * - " ELSE ind \o "      - ">>
                     \o (IF Truthy(cell.text) THEN <<cell.text[1]>> ELSE <<>>)),
                  ForEach(cell.children, cell.tag, ""))
    IN  Returning(r, <<Join("", r.lines)>>)

RECURSIVE Cells(_, _, _)
Cells(cells, k, ind) ==
    IF k > Len(cells) THEN Ok(<<>>) ELSE Then(Cell(cells[k], k, ind), Cells(cells, k + 1, ind))

RECURSIVE Rows(_, _)
Rows(rows, ind) ==
    IF rows = <<>> THEN Ok(<<>>)
    ELSE Then(Cells(SelectSeq(rows[1].children, LAMBDA c : c.tag \in {"th", "td"}), 1, ind),
              Rows(Tail(rows), ind))

Table(n, par, ind) ==
    LET header == XPath(n, "TableHead")
        first == ind \o ".. list-table:: " \o (IF header # <<>> THEN Format(header[1].text) ELSE "")
        option == IF XPath3(n, "tbody", "tr", "th") # <<>>
                  THEN <<ind \o "    :header-rows: " \o IntToStr(HeaderRows(n))>>
                  ELSE <<>>
    IN  Then(Then(Ok(<<first>> \o option \o <<"">>), Rows(XPath2(n, "tbody", "tr"), ind)),
             Ok(<<"">>))

Anchor(n, par, ind) ==
    IF Truthy(n.text) /\ HasAttr(n, "href")
    THEN LET m == fix_trailing_space(n)
         IN  Ok(<<BQ \o m.text[1] \o " <" \o n.attrib["href"] \o ">" \o BQ \o "_">> \o TailOf(m))
    ELSE Ok(TailOf(n))

\* a resolution that would add the default part whenever the block is missing
OlinkTargetAlwaysPart(targetdoc) ==
    LET parts == Split(targetdoc, ",")
        target == [k \in 1..Len(parts) |-> Replace(Lower(Strip(parts[k])), " ", "")]
    IN  IF ~StartsWith(target[1], "block")
        THEN <<DEFAULT_BLOCK, DEFAULT_PART>> \o target
        ELSE target

\* the path segments an olink resolves its targetdoc to
OlinkTarget(targetdoc) ==
    LET parts == Split(targetdoc, ",")
        target == [k \in 1..Len(parts) |-> Replace(Lower(Strip(parts[k])), " ", "")]
    IN  IF ~StartsWith(target[1], "block")
        THEN <<DEFAULT_BLOCK>>
             \o (IF ~StartsWith(target[1], "part") THEN <<DEFAULT_PART>> ELSE <<>>)
             \o target
        ELSE target

Olink(n, par, ind) ==
    IF Truthy(n.text) /\ HasAttr(n, "targetdoc")
    THEN LET m == fix_trailing_space(n)
         IN  Ok(<<":doc:" \o BQ \o m.text[1] \o " </" \o Join("/", OlinkTarget(n.attrib["targetdoc"]))
                  \o "/index>" \o BQ>> \o TailOf(m))
    ELSE Ok(TailOf(n))

\* what an InlineFigure appends to DEFER_OUTPUT, given the lines of its Image
DeferredBlock(imageid, tmp) ==
    <<".. |" \o imageid \o "| rst-class:: inline-block", "    ">>
    \o [k \in 1..Len(tmp) |-> "    " \o tmp[k]]

InlineFigure(n, par, ind) ==
    LET imagesrc == XPathAttr(n, "Image", "src")
        imageid == Basename(imagesrc[1])
        tmp == process_node(XPath(n, "Image")[1], n.tag, "")
    IN  IF imagesrc = <<>> THEN Ok(TailOf(n))
        ELSE IF tmp.exc # "" THEN tmp
        ELSE Out(<<"|" \o imageid \o "|">> \o TailOf(n),
                 tmp.defer \o (IF tmp.lines # <<>> THEN DeferredBlock(imageid, tmp.lines) ELSE <<>>),
                 tmp.diag, "")

Br(n, par, ind) == IF Truthy(n.tail) THEN Ok(<<ind \o n.tail[1]>>) ELSE Ok(<<>>)

Font(n, par, ind) == IF Truthy(n.text) THEN Ok(<<ind \o n.text[1]>>) ELSE Ok(<<>>)

Sup(n, par, ind) == Wrapped(fix_trailing_space(n), ":superscript:" \o BQ, BQ)

\* a final else that would also walk the children of the unknown element
UnrecognizedVisiting(n, par, ind) ==
    Returning(Then(Out(<<>>, <<>>, <<n.tag>>, ""), ForEach(n.children, n.tag, ind)), <<>>)

\* the final else: the kind is printed and nothing is returned
Unrecognized(n, par, ind) == Out(<<>>, <<>>, <<n.tag>>, "")

\* the kinds the if/elif chain names
RecognizedTags ==
    {"Title", "Heading", "Paragraph", "Timing", "Box", "StudyNote", "Image", "Figure",
     "MediaContent", "Description", "Transcript", "Activity", "Question", "Answer", "Quote",
     "SourceReference", "Reference", "ListItem", "SubListItem", "ComputerCode",
     "ComputerDisplay", "ComputerUI", "Equation", "Reading", "InternalSection", "SubSection",
     "Table", "i", "b", "a", "olink", "InlineFigure", "GlossaryTerm", "br", "font", "sup",
     "Section"} \cup ListTags

process_node(n, par, ind) ==
    CASE n.tag \in {"Title", "Heading"} -> Title(n, par, ind)
      [] n.tag \in {"Paragraph", "Timing"} -> Paragraph(n, par, ind)
      [] n.tag = "Box" -> Box(n, par, ind)
      [] n.tag = "StudyNote" -> Directive(n, "note", ind)
      [] n.tag = "Image" -> Image(n, par, ind)
      [] n.tag = "Figure" -> Figure(n, par, ind)
      [] n.tag = "MediaContent" -> MediaContent(n, par, ind)
      [] n.tag = "Description" -> Directive(n, "description", ind)
      [] n.tag = "Transcript" -> Directive(n, "transcript", ind)
      [] n.tag = "Activity" -> Activity(n, par, ind)
      [] n.tag = "Question" -> Container(n, ind)
      [] n.tag = "Answer" -> Directive(n, "activity-answer", ind)
      [] n.tag = "Quote" -> Container(n, Indented(ind))
      [] n.tag = "SourceReference" -> SourceReference(n, par, ind)
      [] n.tag = "Reference" -> Reference(n, par, ind)
      [] n.tag \in ListTags -> List(n, par, ind)
      [] n.tag \in {"ListItem", "SubListItem"} -> ListItem(n, par, ind)
      [] n.tag = "ComputerCode" -> ComputerCode(n, par, ind)
      [] n.tag \in {"ComputerDisplay", "ComputerUI"} -> ComputerDisplay(n, par, ind)
      [] n.tag = "Equation" -> Equation(n, par, ind)
      [] n.tag = "Reading" -> Container(n, Indented(ind))
      [] n.tag \in {"InternalSection", "SubSection"} -> Container(n, ind)
      [] n.tag = "Table" -> Table(n, par, ind)
      [] n.tag = "i" -> Inline(n, "*", "*")
      [] n.tag = "b" -> Inline(n, "**", "**")
      [] n.tag = "a" -> Anchor(n, par, ind)
      [] n.tag = "olink" -> Olink(n, par, ind)
      [] n.tag = "InlineFigure" -> InlineFigure(n, par, ind)
      [] n.tag = "GlossaryTerm" -> Inline(n, ":term:" \o BQ, BQ)
      [] n.tag = "br" -> Br(n, par, ind)
      [] n.tag = "font" -> Font(n, par, ind)
      [] n.tag = "sup" -> Sup(n, par, ind)
      [] n.tag = "Section" -> Ok(<<>>)
      [] OTHER -> Unrecognized(n, par, ind)

---------------------------------------------------------------------------
(* run_import, process_session and process_section, one action per step *)

dest == "out"

\* f'section_{idx + 1}/index.rst' under dest; idx here is the 1-based position
SessionFile(k) == dest \o "/section_" \o IntToStr(k) \o "/index.rst"

\* f'subsection_{idx + 1}.rst' under f'section_{idx + 1}' under dest
SectionFile(k, m) == dest \o "/section_" \o IntToStr(k) \o "/subsection_" \o IntToStr(m) \o ".rst"

IndexFile == dest \o "/index.rst"

\* open(filename, 'w') followed by the print loop
Write(fs, name, lines) == [f \in DOMAIN fs \cup {name} |-> IF f = name THEN lines ELSE fs[f]]

\* the header run_import starts its buffer with
IndexHeader ==
    <<dest, Repeat("#", Len(dest)), "", ".. toctree::", "    :maxdepth: 1", "    :hidden:", "">>

TocHeader == <<".. toctree::", "    :maxdepth: 1", "    :hidden:", "">>

session == doc[idx]
sections == XPath(session, "Section")
section == sections[section_idx]

NodeVars == <<node, parent, indent, ret>>
Config == <<doc, DEFAULT_BLOCK, DEFAULT_PART>>

\* run_import: "for idx, session in enumerate(...)" enters process_session,
\* which resets its buffer and the global queue
SessionBegin ==
    /\ pc = "run_import"
    /\ idx < Len(doc)
    /\ idx' = idx + 1
    /\ buffer' = <<>>
    /\ DEFER_OUTPUT' = <<>>
    /\ i' = 1
    /\ pc' = "session_nodes"
    /\ UNCHANGED <<section_idx, j, sbuffer, index_buffer, files, stdout, Config, NodeVars>>

\* process_session: one round of "for node in session: buffer.extend(process_node(node))"
SessionNode ==
    /\ pc = "session_nodes"
    /\ i <= Len(session.children)
    /\ LET r == process_node(session.children[i], "Session", "")
       IN  /\ DEFER_OUTPUT' = DEFER_OUTPUT \o r.defer
           /\ stdout' = stdout \o r.diag
           /\ IF r.exc # ""
              THEN pc' = "crashed" /\ UNCHANGED <<buffer, i>>
              ELSE pc' = pc /\ buffer' = buffer \o r.lines /\ i' = i + 1
    /\ UNCHANGED <<idx, section_idx, j, sbuffer, index_buffer, files, Config, NodeVars>>

\* process_session: the loop is over; "if sections:" appends the toctree header
SessionToc ==
    /\ pc = "session_nodes"
    /\ i > Len(session.children)
    /\ buffer' = IF sections # <<>> THEN buffer \o TocHeader ELSE buffer
    /\ section_idx' = 1
    /\ pc' = "session_sections"
    /\ UNCHANGED <<idx, i, j, sbuffer, index_buffer, DEFER_OUTPUT, files, stdout, Config, NodeVars>>

\* process_session calls process_section, which resets its buffer and the global queue
SectionBegin ==
    /\ pc = "session_sections"
    /\ section_idx <= Len(sections)
    /\ sbuffer' = <<>>
    /\ DEFER_OUTPUT' = <<>>
    /\ j' = 1
    /\ pc' = "section_nodes"
    /\ UNCHANGED <<idx, i, buffer, section_idx, index_buffer, files, stdout, Config, NodeVars>>

\* process_section: one round of "for node in section: buffer.extend(process_node(node))"
SectionNode ==
    /\ pc = "section_nodes"
    /\ j <= Len(section.children)
    /\ LET r == process_node(section.children[j], "Section", "")
       IN  /\ DEFER_OUTPUT' = DEFER_OUTPUT \o r.defer
           /\ stdout' = stdout \o r.diag
           /\ IF r.exc # ""
              THEN pc' = "crashed" /\ UNCHANGED <<sbuffer, j>>
              ELSE pc' = pc /\ sbuffer' = sbuffer \o r.lines /\ j' = j + 1
    /\ UNCHANGED <<idx, i, buffer, section_idx, index_buffer, files, Config, NodeVars>>

\* a process_session that would forget the navigation entry of a Section
SectionWriteNoEntry ==
    /\ pc = "section_nodes"
    /\ j > Len(section.children)
    /\ files' = Write(files, SectionFile(idx, section_idx), sbuffer \o DEFER_OUTPUT)
    /\ DEFER_OUTPUT' = IF DEFER_OUTPUT # <<>> THEN <<>> ELSE DEFER_OUTPUT
    /\ section_idx' = section_idx + 1
    /\ pc' = "session_sections"
    /\ UNCHANGED <<idx, i, j, buffer, sbuffer, index_buffer, stdout, Config, NodeVars>>

\* process_section: flush the queue, write the file and return; process_session
\* appends the navigation entry
SectionWrite ==
    /\ pc = "section_nodes"
    /\ j > Len(section.children)
    /\ files' = Write(files, SectionFile(idx, section_idx), sbuffer \o DEFER_OUTPUT)
    /\ DEFER_OUTPUT' = IF DEFER_OUTPUT # <<>> THEN <<>> ELSE DEFER_OUTPUT
    /\ buffer' = Append(buffer, "    subsection_" \o IntToStr(section_idx))
    /\ section_idx' = section_idx + 1
    /\ pc' = "session_sections"
    /\ UNCHANGED <<idx, i, j, sbuffer, index_buffer, stdout, Config, NodeVars>>

\* process_session: flush the queue, write the file and return; run_import
\* appends the navigation entry
SessionWrite ==
    /\ pc = "session_sections"
    /\ section_idx > Len(sections)
    /\ files' = Write(files, SessionFile(idx), buffer \o DEFER_OUTPUT)
    /\ DEFER_OUTPUT' = IF DEFER_OUTPUT # <<>> THEN <<>> ELSE DEFER_OUTPUT
    /\ index_buffer' = Append(index_buffer, "    section_" \o IntToStr(idx) \o "/index")
    /\ pc' = "run_import"
    /\ UNCHANGED <<idx, i, buffer, section_idx, j, sbuffer, stdout, Config, NodeVars>>

\* run_import: all sessions are done; write the unit's index.rst
IndexWrite ==
    /\ pc = "run_import"
    /\ idx >= Len(doc)
    /\ files' = Write(files, IndexFile, index_buffer)
    /\ pc' = "done"
    /\ UNCHANGED <<idx, i, buffer, section_idx, j, sbuffer, index_buffer, DEFER_OUTPUT, stdout,
                   Config, NodeVars>>

---------------------------------------------------------------------------
(* The documents the run is explored on *)

RECURSIVE Strings(_, _)
\* the strings over an alphabet of at most n characters
Strings(alphabet, n) ==
    IF n = 0 THEN {""}
    ELSE LET shorter == Strings(alphabet, n - 1)
         IN  shorter \cup {s \o c : s \in {t \in shorter : Len(t) = n - 1}, c \in alphabet}

RECURSIVE Tuples(_, _)
\* the sequences over a pool of at most n elements
Tuples(pool, n) ==
    IF n = 0 THEN {<<>>}
    ELSE LET shorter == Tuples(pool, n - 1)
         IN  shorter \cup {Append(t, x) : t \in {u \in shorter : Len(u) = n - 1}, x \in pool}

Leaf(tag, text) == E(tag, text, None, NoAttrib, <<>>)
Img(src) == E("Image", None, None, [src |-> src], <<>>)
Para(text, children) == E("Paragraph", Some(text), None, NoAttrib, children)

\* "Hello *world*"
PHello == Para("Hello ", <<Leaf("i", Some("world"))>>)

\* a paragraph that refers to an inline figure
PFig(name) ==
    Para("See ", <<E("InlineFigure", None, Some("."), NoAttrib, <<Img("C:\\imgs\\" \o name)>>)>>)

\* an element of a kind the converter does not know, with children of its own
Unknown == E("Unknown", Some("u"), None, NoAttrib, <<Leaf("Nested", None), PFig("u.png")>>)

\* a Box without Heading and without children
EmptyBox == Leaf("Box", None)

Sec(children) == E("Section", None, None, NoAttrib, children)

SectionPool ==
    {Sec(<<Img("C:\\imgs\\fig1.png")>>), Sec(<<PFig("s.png")>>), Sec(<<Unknown, Img("t.png"), EmptyBox>>),
     Sec(<<Unknown, PHello>>)}

ContentPool == {PHello, PFig("a.png"), Unknown, EmptyBox}

Sessions ==
    {E("Session", None, None, NoAttrib, c) : c \in Tuples(ContentPool \cup SectionPool, MaxChildren)}

LastSession == E("Session", None, None, NoAttrib, <<PFig("b.png"), Sec(<<PFig("c.png")>>)>>)

Documents == {<<s>> : s \in Sessions} \cup {<<s, LastSession>> : s \in Sessions}

\* run_import has set the globals, emptied dest and built the header of index.rst
Init ==
    /\ doc \in Documents
    /\ DEFAULT_BLOCK = "block" \o IntToStr(MaxBlock)
    /\ DEFAULT_PART = "part" \o IntToStr(1)
    /\ pc = "run_import"
    /\ idx = 0
    /\ i = 1
    /\ buffer = <<>>
    /\ section_idx = 1
    /\ j = 1
    /\ sbuffer = <<>>
    /\ index_buffer = IndexHeader
    /\ DEFER_OUTPUT = <<>>
    /\ files = <<>>
    /\ stdout = <<>>
    /\ node = None
    /\ parent = ""
    /\ indent = ""
    /\ ret = None

Next ==
    \/ SessionBegin
    \/ SessionNode
    \/ SessionToc
    \/ SectionBegin
    \/ SectionNode
    \/ SectionWrite
    \/ SessionWrite
    \/ IndexWrite

Spec == Init /\ [][Next]_vars

---------------------------------------------------------------------------
(* Properties of the run *)

\* the lines the direct children of a level return, in document order
LevelLines(level) ==
    Flatten([k \in 1..Len(level.children) |->
                process_node(level.children[k], level.tag, "").lines])

\* the blocks the direct children of a level append to DEFER_OUTPUT, in order
LevelDefer(level) ==
    Flatten([k \in 1..Len(level.children) |->
                process_node(level.children[k], level.tag, "").defer])

\* the kinds the direct children of a level print, in order
LevelDiag(level) ==
    Flatten([k \in 1..Len(level.children) |->
                process_node(level.children[k], level.tag, "").diag])

NotSections(s) == SelectSeq(s.children, LAMBDA c : c.tag # "Section")

\* the navigation index of a Session: nothing without Sections, else the
\* toctree header and one entry per Section in document order
Navigation(s) ==
    LET secs == XPath(s, "Section")
    IN  IF secs = <<>> THEN <<>>
        ELSE TocHeader \o [m \in 1..Len(secs) |-> "    subsection_" \o IntToStr(m)]

\* C1: every written output unit is the level's own content and navigation
\* entries followed by exactly the deferred blocks that converting the
\* level's own children enqueued, in the order they were enqueued.
C1_DeferredBlocksEndTheirUnit ==
    \A k \in 1..Len(doc) :
        /\ SessionFile(k) \in DOMAIN files =>
               files[SessionFile(k)] = LevelLines(doc[k]) \o Navigation(doc[k]) \o LevelDefer(doc[k])
        /\ \A m \in 1..Len(XPath(doc[k], "Section")) :
               SectionFile(k, m) \in DOMAIN files =>
                   files[SectionFile(k, m)] = LevelLines(XPath(doc[k], "Section")[m])
                                              \o LevelDefer(XPath(doc[k], "Section")[m])

IsUnrecognizedWithChildren(n) == n.tag \notin RecognizedTags /\ n.children # <<>>

\* C3: converting a child of an unrecognized kind that has children adds no
\* line to the caller's buffer, prints exactly one record, the child's own
\* kind, enqueues nothing, and the caller's loop moves on to the next sibling;
\* the loop is left only when every child has been visited.
C3_UnrecognizedSkipped ==
    [][/\ (pc = "session_nodes" /\ i <= Len(session.children)
             /\ IsUnrecognizedWithChildren(session.children[i]))
          => /\ buffer' = buffer
             /\ stdout' = Append(stdout, session.children[i].tag)
             /\ DEFER_OUTPUT' = DEFER_OUTPUT
             /\ pc' = "session_nodes"
             /\ i' = i + 1
       /\ (pc = "section_nodes" /\ j <= Len(section.children)
             /\ IsUnrecognizedWithChildren(section.children[j]))
          => /\ sbuffer' = sbuffer
             /\ stdout' = Append(stdout, section.children[j].tag)
             /\ DEFER_OUTPUT' = DEFER_OUTPUT
             /\ pc' = "section_nodes"
             /\ j' = j + 1
       /\ (pc = "session_nodes" /\ pc' = "session_sections") => i > Len(session.children)
       /\ (pc = "section_nodes" /\ pc' = "session_sections") => j > Len(section.children)
      ]_vars

\* C3 witness: an unknown element with children was skipped with one record
\* and the paragraph after it has been converted
C3_Witness ==
    /\ pc = "session_nodes"
    /\ i = 3
    /\ IsUnrecognizedWithChildren(session.children[1])
    /\ session.children[2] = PHello
    /\ stdout = <<"Unknown">>
    /\ buffer = <<"Hello *world*", "">>

\* the Session of the round-trip scenario
RoundTrip == E("Session", None, None, NoAttrib, <<PHello, Sec(<<Img("C:\\imgs\\fig1.png")>>)>>)

\* what the run prints for one Session: its own children, then each Section's
SessionDiag(s) ==
    LevelDiag([s EXCEPT !.children = NotSections(s)])
    \o Flatten([m \in 1..Len(XPath(s, "Section")) |-> LevelDiag(XPath(s, "Section")[m])])

\* C4: a written Session unit starts with the lines of the Session's
\* non-Section children followed by the navigation index (one entry per child
\* Section, in document order) and holds nothing else but deferred blocks; a
\* written Section unit is the conversion of that Section's children (their
\* lines, then the blocks they deferred); a finished run has written exactly one
\* unit per Session and per Section and no Section child printed anything of
\* its own; and the round-trip Session gives the index with one entry and the
\* Section unit with the image reference to fig1.png.
C4_SessionAndSectionUnits ==
    /\ \A k \in 1..Len(doc) :
        LET s == doc[k]
            secs == XPath(s, "Section")
            own == LevelLines([s EXCEPT !.children = NotSections(s)]) \o Navigation(s)
        IN  /\ SessionFile(k) \in DOMAIN files =>
                LET f == files[SessionFile(k)]
                IN  /\ Len(f) >= Len(own)
                    /\ SubSeq(f, 1, Len(own)) = own
                    /\ SubSeq(f, Len(own) + 1, Len(f)) \in {<<>>, LevelDefer(s)}
            /\ \A m \in 1..Len(secs) :
                SectionFile(k, m) \in DOMAIN files =>
                    files[SectionFile(k, m)] = LevelLines(secs[m]) \o LevelDefer(secs[m])
    /\ pc = "done" =>
        /\ DOMAIN files = {IndexFile} \cup {SessionFile(k) : k \in 1..Len(doc)}
                          \cup UNION {{SectionFile(k, m) : m \in 1..Len(XPath(doc[k], "Section"))} :
                                       k \in 1..Len(doc)}
        /\ stdout = Flatten([k \in 1..Len(doc) |-> SessionDiag(doc[k])])
    /\ (pc = "done" /\ doc = <<RoundTrip>>) =>
        /\ files[SessionFile(1)] = <<"Hello *world*", "", ".. toctree::", "    :maxdepth: 1",
                                     "    :hidden:", "", "    subsection_1">>
        /\ files[SectionFile(1, 1)] = <<".. image:: fig1.png", "">>

\* C4 witness: the round-trip Session has been emitted
C4_Witness ==
    /\ pc = "done"
    /\ doc = <<RoundTrip>>
    /\ files[SectionFile(1, 1)] = <<".. image:: fig1.png", "">>

---------------------------------------------------------------------------
(* Direct calls of process_node: the elements they are explored on *)

\* the arguments of the call and the globals run_import has set
Input(n, par, ind, block, part) ==
    /\ node = n
    /\ parent = par
    /\ indent = ind
    /\ DEFAULT_BLOCK = "block" \o IntToStr(block)
    /\ DEFAULT_PART = "part" \o IntToStr(part)

\* an optional text for every string of a set; lxml gives None for an empty text
Optional(strings) == {None} \cup {Some(t) : t \in strings \ {""}}

InlineTags ==
    {"i", "b", "a", "sup", "GlossaryTerm", "ComputerCode", "ComputerDisplay", "ComputerUI"}

\* an inline element: every text of spaces and letters, with and without tail and href
InlineInput ==
    \E tag \in InlineTags, text \in Optional(Strings({"a", " "}, MaxTextLen)),
       tail \in {None, Some("t"), Some(" t")}, attrib \in {NoAttrib, [href |-> "u"]} :
        Input(E(tag, text, tail, attrib, <<>>), "Paragraph", "", MaxBlock, 1)

MediaPaths ==
    (Strings({"a", "\\", "/"}, MaxPathLen) \ {""}) \cup {"C:\\imgs\\fig1.png", "imgs/fig1.png"}

MediaNodes(src) ==
    {Img(src),
     E("Figure", None, None, NoAttrib, <<Img(src)>>),
     E("MediaContent", None, None, [src |-> src], <<>>),
     E("InlineFigure", None, None, NoAttrib, <<Img(src)>>)}

\* a media element: every path of either separator style
MediaInput ==
    \E src \in MediaPaths : \E n \in MediaNodes(src) : Input(n, "Paragraph", "", MaxBlock, 1)

SegmentPool == {"Some Block", "Block 3", "Part 2", "UnitX"}

TargetDocs == {Join(", ", segs) : segs \in Tuples(SegmentPool, MaxSegments) \ {<<>>}}

\* an olink: every targetdoc of the pool's segments under every pair of defaults
OlinkInput ==
    \E t \in TargetDocs, block \in 1..MaxBlock, part \in 1..MaxPart :
        Input(E("olink", Some("t"), None, [targetdoc |-> t], <<>>), "Paragraph", "", block, part)

TableRows == Tuples({Leaf("th", Some("h")), Leaf("td", Some("d"))}, MaxCells)

TableNode(head, rows) ==
    E("Table", None, None, NoAttrib,
      head \o <<E("tbody", None, None, NoAttrib,
                  [k \in 1..Len(rows) |-> E("tr", None, None, NoAttrib, rows[k])])>>)

\* a table: every arrangement of header and data cells
TableInput ==
    \E head \in {<<>>, <<Leaf("TableHead", Some("T"))>>}, rows \in Tuples(TableRows, MaxRows) :
        Input(TableNode(head, rows), "Session", IF head = <<>> THEN "" ELSE "    ", MaxBlock, 1)

MathOutputs == Strings({"\\", "[", "]", "x", "\n"}, MaxMathLen) \cup {"\\[x^2\\]"}

EquationNode(math) ==
    E("Equation", None, None, NoAttrib, <<E("MathML", None, None, [mmltex |-> math], <<>>)>>)

\* an equation: every stylesheet output over backslash, brackets, letter and newline
EquationInput ==
    \E math \in MathOutputs, ind \in {"", "    "} :
        Input(EquationNode(math), "Paragraph", ind, MaxBlock, 1)

HeadedBox == E("Box", None, None, NoAttrib, <<Leaf("Heading", Some("H")), Para("c", <<>>)>>)

SubList == E("BulletedSubsidiaryList", None, None, NoAttrib,
             <<Leaf("SubListItem", Some("s")), Leaf("SubListItem", Some("t"))>>)

ItemChildren ==
    {<<>>, <<Para("a", <<>>)>>, <<Para("a", <<>>), Para("b", <<>>)>>,
     <<Para("a", <<>>), Img("f.png")>>, <<SubList>>, <<HeadedBox>>,
     <<Para("a", <<>>), SubList>>}

\* a list item of either kind under every kind of list
ItemInput ==
    \E tag \in {"ListItem", "SubListItem"}, text \in {None, Some("x")},
       children \in ItemChildren, par \in ListTags, ind \in {"", "    "} :
        Input(E(tag, text, None, NoAttrib, children), par, ind, MaxBlock, 1)

AnyAttribs == {NoAttrib, [src |-> "f.png"], [href |-> "u", targetdoc |-> "Part 2"]}

AnyChildren ==
    {<<>>, <<Para("c", <<>>)>>, <<Leaf("Heading", Some("H"))>>, <<Img("f.png")>>,
     <<E("MathML", None, None, [mmltex |-> "x"], <<>>)>>,
     <<E("Caption", Some("cap"), None, NoAttrib, <<Leaf("b", Some("x"))>>)>>}

\* every kind: with and without text, tail, attributes and children
AnyInput ==
    \E tag \in RecognizedTags \cup {"Unknown"}, text \in {None, Some("a")},
       tail \in {None, Some("t")}, attrib \in AnyAttribs, children \in AnyChildren,
       par \in {"Session", "Paragraph"} :
        Input(E(tag, text, tail, attrib, children), par, "", MaxBlock, 1)

\* run_import has set the globals; an element is about to be converted
InitNode ==
    /\ \/ InlineInput
       \/ MediaInput
       \/ OlinkInput
       \/ TableInput
       \/ EquationInput
       \/ ItemInput
       \/ AnyInput
    /\ ret = None
    /\ DEFER_OUTPUT = <<>>
    /\ stdout = <<>>
    /\ doc = <<>>
    /\ pc = "process_node"
    /\ idx = 0
    /\ i = 1
    /\ buffer = <<>>
    /\ section_idx = 1
    /\ j = 1
    /\ sbuffer = <<>>
    /\ index_buffer = <<>>
    /\ files = <<>>

\* process_node(node, indent): the call runs to its return or to its exception
ProcessNodeCall ==
    /\ pc = "process_node"
    /\ ret = None
    /\ LET r == process_node(node, parent, indent)
       IN  /\ ret' = Some(r)
           /\ DEFER_OUTPUT' = DEFER_OUTPUT \o r.defer
           /\ stdout' = stdout \o r.diag
    /\ pc' = IF ret'[1].exc # "" THEN "crashed" ELSE "returned"
    /\ UNCHANGED <<doc, idx, i, buffer, section_idx, j, sbuffer, index_buffer, files,
                   DEFAULT_BLOCK, DEFAULT_PART, node, parent, indent>>

NextNode == ProcessNodeCall

SpecNode == InitNode /\ [][NextNode]_vars

---------------------------------------------------------------------------
(* Properties of a direct call *)

Called == ret # None
Result == ret[1]

\* C2: a call on an element of a recognized kind returns; it never raises.
C2_RecognizedNeverRaises ==
    (Called /\ node.tag \in RecognizedTags) => Result.exc = ""

\* the path between ":doc:'t </" and "/index>'" of a rendered olink
ResolvedPath(line) ==
    SubSeq(line, Len(":doc:" \o BQ \o node.text[1] \o " </") + 1, Len(line) - Len("/index>" \o BQ))

\* the segments of the pool, lowercased and with their spaces removed
Normalized(seg) ==
    CASE seg = "Some Block" -> "someblock"
      [] seg = "Block 3" -> "block3"
      [] seg = "Part 2" -> "part2"
      [] seg = "UnitX" -> "unitx"

NamesBlock(seg) == seg = "Block 3"
NamesPart(seg) == seg = "Part 2"

\* the segments the targetdoc of the converted olink was built from
SegmentsOf(targetdoc) ==
    CHOOSE segs \in Tuples(SegmentPool, MaxSegments) \ {<<>>} : Join(", ", segs) = targetdoc

IsOlinkCall ==
    /\ Called
    /\ node.tag = "olink"
    /\ Truthy(node.text)
    /\ HasAttr(node, "targetdoc")
    /\ node.attrib["targetdoc"] \in TargetDocs

\* C5 as stated: the path ends with the normalized segments, a default block
\* or part is put ahead of them only where no segment of the target names one,
\* and "Some Block, Part 2, UnitX" under block=5, part=1 gives block5/part2/unitx.
C5_DefaultsOnlyWhereMissing ==
    IsOlinkCall =>
        LET segs == SegmentsOf(node.attrib["targetdoc"])
            path == Split(ResolvedPath(Result.lines[1]), "/")
            added == SubSeq(path, 1, Len(path) - Len(segs))
        IN  /\ SubSeq(path, Len(path) - Len(segs) + 1, Len(path))
                 = [k \in 1..Len(segs) |-> Normalized(segs[k])]
            /\ (\E k \in 1..Len(added) : StartsWith(added[k], "block"))
                 => ~\E k \in 1..Len(segs) : NamesBlock(segs[k])
            /\ (\E k \in 1..Len(added) : StartsWith(added[k], "part"))
                 => ~\E k \in 1..Len(segs) : NamesPart(segs[k])
            /\ (node.attrib["targetdoc"] = "Some Block, Part 2, UnitX"
                  /\ DEFAULT_BLOCK = "block5" /\ DEFAULT_PART = "part1")
                 => ResolvedPath(Result.lines[1]) = "block5/part2/unitx"

\* C5 amended: the path is the normalized segments, preceded by the default
\* block when the first segment does not name a block, and by the default
\* block and the default part when the first segment names neither a block nor
\* a part; only the first segment is looked at.  "Some Block, Part 2, UnitX"
\* under block=5, part=1 gives block5/part1/someblock/part2/unitx.
C5_DefaultsByFirstSegment ==
    IsOlinkCall =>
        LET segs == SegmentsOf(node.attrib["targetdoc"])
            added == IF NamesBlock(segs[1]) THEN <<>>
                     ELSE IF NamesPart(segs[1]) THEN <<DEFAULT_BLOCK>>
                     ELSE <<DEFAULT_BLOCK, DEFAULT_PART>>
        IN  /\ Result.lines = <<":doc:" \o BQ \o node.text[1] \o " </"
                                \o Join("/", added \o [k \in 1..Len(segs) |-> Normalized(segs[k])])
                                \o "/index>" \o BQ>> \o TailOf(node)
            /\ (node.attrib["targetdoc"] = "Some Block, Part 2, UnitX"
                  /\ DEFAULT_BLOCK = "block5" /\ DEFAULT_PART = "part1")
                 => ResolvedPath(Result.lines[1]) = "block5/part1/someblock/part2/unitx"

\* C5 witness: the scenario's olink has been resolved
C5_Witness ==
    /\ IsOlinkCall
    /\ node.attrib["targetdoc"] = "Some Block, Part 2, UnitX"
    /\ DEFAULT_BLOCK = "block5"
    /\ DEFAULT_PART = "part1"
    /\ Result.lines = <<":doc:" \o BQ \o "t </block5/part1/someblock/part2/unitx/index>" \o BQ>>

\* the part of a path after its last separator of either style
FinalSegment(src) ==
    LET clean == {k \in 0..Len(src) : \A m \in (k + 1)..Len(src) : Char(src, m) \notin {"\\", "/"}}
    IN  From(src, CHOOSE k \in clean : \A m \in clean : k <= m)

\* C6: the reference a media element renders holds only the final segment of
\* its source path, for backslash and for forward-slash separated paths.
C6_OnlyFinalPathSegment ==
    /\ (Called /\ node.tag = "Image" /\ HasAttr(node, "src") /\ node.attrib["src"] \in MediaPaths)
         => Result.lines[1] = ".. image:: " \o FinalSegment(node.attrib["src"])
    /\ (Called /\ node.tag = "MediaContent" /\ HasAttr(node, "src")
          /\ node.attrib["src"] \in MediaPaths)
         => Result.lines[1] = indent \o ".. iframe:: " \o FinalSegment(node.attrib["src"])
    /\ (Called /\ node.tag = "Figure" /\ node.children # <<>> /\ node.children[1].tag = "Image"
          /\ HasAttr(node.children[1], "src") /\ node.children[1].attrib["src"] \in MediaPaths)
         => Result.lines[1] = indent \o ".. figure:: " \o FinalSegment(node.children[1].attrib["src"])
    /\ (Called /\ node.tag = "InlineFigure" /\ node.children # <<>> /\ node.children[1].tag = "Image"
          /\ HasAttr(node.children[1], "src") /\ node.children[1].attrib["src"] \in MediaPaths)
         => Result.lines[1] = "|" \o FinalSegment(node.children[1].attrib["src"]) \o "|"

\* the delimiters an inline rule puts around the text of n
OpenOf(n) ==
    CASE n.tag = "i" -> "*"
      [] n.tag = "b" -> "**"
      [] n.tag = "a" -> BQ
      [] n.tag = "sup" -> ":superscript:" \o BQ
      [] n.tag = "GlossaryTerm" -> ":term:" \o BQ
      [] OTHER -> BQ \o BQ

CloseOf(n) ==
    CASE n.tag = "i" -> "*"
      [] n.tag = "b" -> "**"
      [] n.tag = "a" -> " <" \o n.attrib["href"] \o ">" \o BQ \o "_"
      [] n.tag = "sup" -> BQ
      [] n.tag = "GlossaryTerm" -> BQ
      [] OTHER -> BQ \o BQ

\* C7: for an inline node whose text ends with a space, the output is the
\* text without that space between the delimiters, with no space directly
\* inside either delimiter, followed by one piece: the space and then the tail.
C7_NoSpaceInsideDelimiters ==
    (/\ Called
     /\ node.tag \in InlineTags
     /\ node.children = <<>>
     /\ Truthy(node.text)
     /\ EndsWith(node.text[1], " ")
     /\ node.tag = "a" => HasAttr(node, "href"))
    => LET inner == SubSeq(node.text[1], 1, Len(node.text[1]) - 1)
       IN  /\ Result.lines = <<OpenOf(node) \o inner \o CloseOf(node),
                               " " \o (IF node.tail = None THEN "" ELSE node.tail[1])>>
           /\ ~StartsWith(inner, " ")
           /\ ~EndsWith(inner, " ")

\* the marker of an item by the kind of the list it sits in
MarkerUnder(list) == IF list = "NumberedList" THEN "#. " ELSE "* "

\* C8: the first line of an item carries the marker its parent's kind gives
\* it, and every later non-empty line starts with the indent followed by as
\* many blanks as the marker is wide.
C8_MarkerAndContinuationPadding ==
    (/\ Called
     /\ node.tag \in {"ListItem", "SubListItem"}
     /\ parent \in ListTags
     /\ Result.exc = ""
     /\ Result.lines # <<>>)
    => /\ StartsWith(Result.lines[1], indent \o MarkerUnder(parent))
       /\ \A k \in 2..Len(Result.lines) :
            \/ Result.lines[k] = ""
            \/ StartsWith(Result.lines[k], indent \o Repeat(" ", Len(MarkerUnder(parent))))

\* the rows of the body of a table
BodyRows(t) == XPath2(t, "tbody", "tr")

\* how many body rows hold at least one header cell
RowsWithHeaderCell(t) ==
    Cardinality({k \in 1..Len(BodyRows(t)) :
                    \E c \in 1..Len(BodyRows(t)[k].children) : BodyRows(t)[k].children[c].tag = "th"})

IsHeaderRowsLine(line) == \E k \in 1..Len(line) : StartsWith(From(line, k - 1), ":header-rows:")

\* C9: the header-rows option of a converted table gives the number of body
\* rows that hold at least one header cell; it is the second line of the
\* directive and is left out when no row holds one.
C9_HeaderRowsCount ==
    (Called /\ node.tag = "Table") =>
        IF RowsWithHeaderCell(node) > 0
        THEN /\ Result.lines[2] = indent \o "    :header-rows: " \o IntToStr(RowsWithHeaderCell(node))
             /\ \A k \in 1..Len(Result.lines) : IsHeaderRowsLine(Result.lines[k]) => k = 2
        ELSE \A k \in 1..Len(Result.lines) : ~IsHeaderRowsLine(Result.lines[k])

\* C9 witness: a table whose second row has two header cells and whose first has none
C9_Witness ==
    /\ Called
    /\ node.tag = "Table"
    /\ Len(BodyRows(node)) = 2
    /\ BodyRows(node)[1].children = <<Leaf("td", Some("d"))>>
    /\ BodyRows(node)[2].children = <<Leaf("th", Some("h")), Leaf("th", Some("h"))>>
    /\ Result.lines[2] = indent \o "    :header-rows: 1"

RECURSIVE Rewritten(_)
\* one pass over a newline-free text: \[ and \] become $$, any other backslash is doubled
Rewritten(s) ==
    IF s = "" THEN ""
    ELSE IF StartsWith(s, "\\[") \/ StartsWith(s, "\\]") THEN "$$" \o Rewritten(From(s, 2))
    ELSE IF Char(s, 1) = "\\" THEN "\\\\" \o Rewritten(Tail(s))
    ELSE Char(s, 1) \o Rewritten(Tail(s))

\* a text without its newlines
WithoutNewlines(s) == Join("", Split(s, "\n"))

IsEquationCall == Called /\ node.tag = "Equation" /\ XPath(node, "MathML") # <<>>

\* C10: for a non-empty stylesheet output, the Equation gives one content
\* line (after the indent): the output without its newlines, with \[ and \]
\* turned into $$ and every other backslash doubled, and then the blank
\* separator; \[x^2\] gives $$x^2$$; an empty output gives no line at all.
C10_EquationLine ==
    IsEquationCall =>
        LET math == XPath(node, "MathML")[1].attrib["mmltex"]
        IN  /\ math # "" =>
                /\ Result.lines = <<indent \o Rewritten(WithoutNewlines(math)), "">>
                /\ ~Contains(Result.lines[1], "\n")
            /\ math = "" => Result.lines = <<>>
            /\ (math = "\\[x^2\\]" /\ indent = "") => Result.lines = <<"$$x^2$$", "">>

\* C10 witness: the scenario's equation has been converted
C10_Witness ==
    /\ IsEquationCall
    /\ XPath(node, "MathML")[1].attrib["mmltex"] = "\\[x^2\\]"
    /\ Result.lines = <<"$$x^2$$", "">>

====
